---- MODULE Spec2Model ----
(***************************************************************************)
(* Pong (src/src/main.rs): the per-frame simulation systems of the Bevy    *)
(* app, as a state machine.                                                *)
(*                                                                         *)
(* Units.  The source computes in f32 pixels and seconds.  Here lengths    *)
(* are integers in hundredths of a pixel (so that G = 9.81 is the integer  *)
(* 981) and the frame time dt is a whole number of seconds.  Mass keeps   *)
(* its source value.                                                       *)
(***************************************************************************)
EXTENDS Integers, Sequences, FiniteSets, TLC

\* ---------------------------------------------------------------- constants
WIDTH == 85200          \* const WIDTH: f32 = 852.0
HEIGHT == 48000         \* const HEIGHT: f32 = 480.0
BALL_RADIUS == 800      \* const BALL_RADIUS: f32 = 8.0
G == 981                \* const G: f32 = 9.81 (gravity)
SPEED == 10000          \* const SPEED: f32 = 100.0 (controls)
BORDER_STOP == 29000    \* const BORDER_STOP: f32 = 290.0 (controls)
SPAWN_MASS == 10        \* Mass(10.0)
SPAWN_VX == 5000        \* Velocity { x: 50.0, .. }
SPAWN_VY == 0           \* Velocity { .., y: 0.0 }
PADDLE_X == 41000       \* Transform::from_translation x: -410.0 / 410.0
PADDLE_EXTENT_Y == 20000 \* shapes::Rectangle extents y: 200.0

\* ------------------------------------------------------------------- bounds
MaxDt == 1              \* a frame lasts 0..MaxDt seconds
MaxAbsY == 30000        \* no further frame once a ball is this far off the arena
MaxBalls == 2           \* worlds of 0..MaxBalls Ball entities (SpecAny)
MaxNegDt == 1           \* a frame of SpecNegDt lasts -MaxNegDt..-1 seconds

\* -------------------------------------------------------------------- types
Side == {"Left", "Right"}

Keys == {"W", "S", "Up", "Down"}

Systems == {"gravity", "velocity", "controls", "out_of_bounds_detector",
            "collision_detector", "scoreboard_changer"}

Abs(n) == IF n < 0 THEN -n ELSE n

VARIABLES
    balls,      \* the entities carrying Ball, Transform, Mass, Velocity
    paddles,    \* Side -> Transform of the entity carrying Player(Side)
    dt,         \* Time::delta_seconds() of the running frame
    pending,    \* the systems of the running frame that have not run yet
    events,     \* Events<ScoreEvent>: the two buffers, events marked when read
    score,      \* the two numbers of the scoreboard
    panicked,   \* a system panicked: the app is gone
    hist        \* history: the balls as they were when systems were scheduled

vars == <<balls, paddles, dt, pending, events, score, panicked, hist>>

\* ---------------------------------------------------------------- startup
SpawnBall == [x |-> 0, y |-> 0, mass |-> SPAWN_MASS, vx |-> SPAWN_VX, vy |-> SPAWN_VY]

SpawnPlayers ==
    [s \in Side |-> [x |-> IF s = "Left" THEN -PADDLE_X ELSE PADDLE_X, y |-> 0]]

SetupScore == [s \in Side |-> 0]

NoEvents == [cur |-> <<>>, prev |-> <<>>]

Init ==
    /\ balls = <<SpawnBall>>
    /\ paddles = SpawnPlayers
    /\ dt = 0
    /\ pending = {}
    /\ events = NoEvents
    /\ score = SetupScore
    /\ panicked = FALSE
    /\ hist = <<>>

\* ------------------------------------------------------------ frame start
\* Events::<ScoreEvent>::update_system (added by add_event, stage First): the
\* buffers are swapped and the older one is cleared, so an event is kept for
\* the frame it is sent in and for the next one.
EventsUpdate(ev) == [cur |-> <<>>, prev |-> ev.cur]

\* One pass of the app's schedule begins: Time is refreshed, the event
\* buffers are rotated, and every system added with add_system is due.
\* The systems carry no label and no before/after constraint, so within the
\* frame they run in whatever order the executor picks.
BeginTick ==
    /\ ~panicked
    /\ pending = {}
    /\ \A i \in 1..Len(balls) : Abs(balls[i].y) <= MaxAbsY
    /\ dt' \in 0..MaxDt
    /\ events' = EventsUpdate(events)
    /\ pending' = Systems
    /\ UNCHANGED <<balls, paddles, score, panicked, hist>>

\* System s is picked by the executor and runs to completion.
Runs(s) ==
    /\ ~panicked
    /\ s \in pending
    /\ pending' = pending \ {s}
    /\ UNCHANGED <<dt, hist>>

\* ---------------------------------------------------------------- gravity
\* Mutant: the pull points the other way.
Gravity_Up(b, d) == [b EXCEPT !.y = b.y + d * G * b.mass]

Gravity(b, d) == [b EXCEPT !.y = b.y - d * G * b.mass]

gravity ==
    /\ Runs("gravity")
    /\ balls' = [i \in 1..Len(balls) |-> Gravity(balls[i], dt)]
    /\ UNCHANGED <<paddles, events, score, panicked>>

\* --------------------------------------------------------------- velocity
\* Mutant: y is assigned the displacement instead of being moved by it.
Velocity_Assign(b, d) == [b EXCEPT !.y = b.vy * d, !.x = b.x + b.vx * d]

\* Mutant: the ball is carried against its Velocity.
Velocity_Back(b, d) == [b EXCEPT !.y = b.y - b.vy * d, !.x = b.x - b.vx * d]

Velocity(b, d) == [b EXCEPT !.y = b.y + b.vy * d, !.x = b.x + b.vx * d]

velocity ==
    /\ Runs("velocity")
    /\ balls' = [i \in 1..Len(balls) |-> Velocity(balls[i], dt)]
    /\ UNCHANGED <<paddles, events, score, panicked>>

\* --------------------------------------------------------------- controls
UpKey(s) == IF s = "Left" THEN "W" ELSE "Up"

DownKey(s) == IF s = "Left" THEN "S" ELSE "Down"

\* Mutant: the down key is looked at first.
Controls_DownFirst(y, up, down, d) ==
    IF down /\ y - BORDER_STOP > -(WIDTH \div 2)
    THEN y - SPEED * d
    ELSE IF up /\ y + BORDER_STOP < WIDTH \div 2
         THEN y + SPEED * d
         ELSE y

Controls(y, up, down, d) ==
    IF up /\ y + BORDER_STOP < WIDTH \div 2
    THEN y + SPEED * d
    ELSE IF down /\ y - BORDER_STOP > -(WIDTH \div 2)
         THEN y - SPEED * d
         ELSE y

\* The system in a frame whose Input<KeyCode> has exactly `keys` pressed.
ControlsWith(keys) ==
    /\ Runs("controls")
    /\ paddles' = [s \in Side |->
          [paddles[s] EXCEPT !.y =
              Controls(paddles[s].y, UpKey(s) \in keys, DownKey(s) \in keys, dt)]]
    /\ UNCHANGED <<balls, events, score, panicked>>

controls == \E keys \in SUBSET Keys : ControlsWith(keys)

\* ------------------------------------------------- out_of_bounds_detector
\* Mutant: the two sides are mixed up.
OutOfBounds_Swapped(x) ==
    IF x > WIDTH \div 2 THEN "Left"
    ELSE IF x < -(WIDTH \div 2) THEN "Right"
    ELSE "None"

\* Mutant: the goal lines are taken at a quarter of the width.
OutOfBounds_Quarter(x) ==
    IF x > WIDTH \div 4 THEN "Right"
    ELSE IF x < -(WIDTH \div 4) THEN "Left"
    ELSE "None"

\* The side whose ScoreEvent a ball at x makes the system send, or "None".
OutOfBounds(x) ==
    IF x > WIDTH \div 2 THEN "Right"
    ELSE IF x < -(WIDTH \div 2) THEN "Left"
    ELSE "None"

\* Mutant: the event is not sent.
Send_Drop(ev, side) == ev

Send(ev, side) == [ev EXCEPT !.cur = Append(@, [side |-> side, read |-> FALSE])]

\* Mutant: the ball is put back as it was spawned.
Recenter_Respawn(b) == [b EXCEPT !.x = 0, !.y = 0, !.mass = SPAWN_MASS]

Recenter(b) == [b EXCEPT !.x = 0, !.y = 0]

\* Mutant: the first match is taken when there are several.
IsSingle_First(q) == Len(q) >= 1

\* Query::single_mut(): the query matches exactly one entity, else it panics.
IsSingle(q) == Len(q) = 1

out_of_bounds_detector ==
    /\ Runs("out_of_bounds_detector")
    /\ IF ~IsSingle(balls)
       THEN \* query.single_mut() panics
            /\ panicked' = TRUE
            /\ UNCHANGED <<balls, events>>
       ELSE /\ panicked' = panicked
            /\ IF OutOfBounds(balls[1].x) = "None"
               THEN UNCHANGED <<balls, events>>
               ELSE /\ events' = Send(events, OutOfBounds(balls[1].x))
                    /\ balls' = [balls EXCEPT ![1] = Recenter(@)]
    /\ UNCHANGED <<paddles, score>>

\* ----------------------------------------------------- collision_detector
\* Mutant: a contact always turns the push downwards.
Collide_Down(b) ==
    IF \/ b.y + BALL_RADIUS > HEIGHT \div 2
       \/ b.y - BALL_RADIUS < -(HEIGHT \div 2)
    THEN [b EXCEPT !.mass = Abs(b.mass)]
    ELSE b

\* Mutant: the bottom edge is forgotten.
Collide_TopOnly(b) ==
    IF b.y + BALL_RADIUS > HEIGHT \div 2
    THEN [b EXCEPT !.mass = b.mass * (-1)]
    ELSE b

\* Mutant: the flip also doubles the Mass.
Collide_Double(b) ==
    IF \/ b.y + BALL_RADIUS > HEIGHT \div 2
       \/ b.y - BALL_RADIUS < -(HEIGHT \div 2)
    THEN [b EXCEPT !.mass = b.mass * (-2)]
    ELSE b

Collide(b) ==
    IF \/ b.y + BALL_RADIUS > HEIGHT \div 2
       \/ b.y - BALL_RADIUS < -(HEIGHT \div 2)
    THEN [b EXCEPT !.mass = b.mass * (-1)]
    ELSE b

collision_detector ==
    /\ Runs("collision_detector")
    /\ IF ~IsSingle(balls)
       THEN \* query.single_mut() panics
            /\ panicked' = TRUE
            /\ UNCHANGED balls
       ELSE /\ panicked' = panicked
            /\ balls' = [balls EXCEPT ![1] = Collide(@)]
    /\ UNCHANGED <<paddles, events, score>>

\* ----------------------------------------------------- scoreboard_changer
\* The body is "// todo!()": the EventReader is never iterated, so no event
\* is marked read and the scoreboard is not touched.
scoreboard_changer ==
    /\ Runs("scoreboard_changer")
    /\ UNCHANGED <<balls, paddles, events, score, panicked>>

\* ------------------------------------------------------------------ specs
Next ==
    \/ BeginTick
    \/ gravity
    \/ velocity
    \/ controls
    \/ out_of_bounds_detector
    \/ collision_detector
    \/ scoreboard_changer

Spec == Init /\ [][Next]_vars

\* ---------------------------------------------- the systems on any world
\* One frame of the schedule over a world that need not be the spawned one:
\* any number of Ball entities up to MaxBalls, the first one anywhere around
\* the arena and with any sign of Mass, the paddles anywhere up to the stop.
BallXs == {-(WIDTH \div 2) - 100, -(WIDTH \div 2), 0, WIDTH \div 2, WIDTH \div 2 + 100}

BallYs == {-(HEIGHT \div 2) + BALL_RADIUS - 50, -300, 0, 500,
           HEIGHT \div 2 - BALL_RADIUS, HEIGHT \div 2 - 50}

Masses == {-SPAWN_MASS, 0, SPAWN_MASS}

VelocityYs == {SPAWN_VY, -(SPAWN_VX \div 2)}

AnyBall == {[x |-> bx, y |-> by, mass |-> m, vx |-> SPAWN_VX, vy |-> v] :
               bx \in BallXs, by \in BallYs, m \in Masses, v \in VelocityYs}

PaddleYs == {-(WIDTH \div 2 - BORDER_STOP), 0, WIDTH \div 2 - BORDER_STOP}

AnyWorld == {[i \in 1..n |-> IF i = 1 THEN b ELSE SpawnBall] :
                n \in 0..MaxBalls, b \in AnyBall}

InitAny ==
    /\ balls \in AnyWorld
    /\ paddles \in {[s \in Side |-> [SpawnPlayers[s] EXCEPT !.y = py[s]]] :
                        py \in [Side -> PaddleYs]}
    /\ dt \in 0..MaxDt
    /\ pending = Systems
    /\ events = NoEvents
    /\ score = SetupScore
    /\ panicked = FALSE
    /\ hist = <<balls>>

NextAny ==
    \/ gravity
    \/ velocity
    \/ controls
    \/ out_of_bounds_detector
    \/ collision_detector
    \/ scoreboard_changer

SpecAny == InitAny /\ [][NextAny]_vars

\* ------------------------------------- collision_detector run twice in a row
\* Only collision_detector is due, and once it has run it is due again, no
\* other system having run in between.
InitTwice ==
    /\ balls \in {<<b>> : b \in AnyBall}
    /\ paddles = SpawnPlayers
    /\ dt = 0
    /\ pending = {"collision_detector"}
    /\ events = NoEvents
    /\ score = SetupScore
    /\ panicked = FALSE
    /\ hist = <<balls>>

Again ==
    /\ ~panicked
    /\ pending = {}
    /\ Len(hist) < 2
    /\ pending' = {"collision_detector"}
    /\ hist' = Append(hist, balls)
    /\ UNCHANGED <<balls, paddles, dt, events, score, panicked>>

NextTwice ==
    \/ collision_detector
    \/ Again

SpecTwice == InitTwice /\ [][NextTwice]_vars

\* ====================================================================
\* Properties
\* ====================================================================
\* This step is a run of system s.
Ran(s) == s \in pending /\ s \notin pending'

\* The events of side s in the two buffers that no reader has read.
Unread(ev, s) ==
    Cardinality({i \in 1..Len(ev.cur) : ev.cur[i].side = s /\ ~ev.cur[i].read})
    + Cardinality({i \in 1..Len(ev.prev) : ev.prev[i].side = s /\ ~ev.prev[i].read})

\* Arena half-height less paddle half-height.
PaddleTravelLimit == HEIGHT \div 2 - PADDLE_EXTENT_Y \div 2

\* This step is a run of controls in which paddle s moves as it does when
\* its up key and its down key are both held (the other paddle's keys free).
RanBothHeld(s) ==
    /\ Ran("controls")
    /\ paddles'[s].y = Controls(paddles[s].y, TRUE, TRUE, dt)

\* -------------------------------------------------------------------- C1
\* C1: each paddle's Position.y stays within [-paddleTravelLimit,
\* +paddleTravelLimit] (arena half-height less paddle half-height) after any
\* sequence of controls runs with any dt >= 0 and any held keys.
C1_PaddleWithinTravelLimit ==
    \A s \in Side : Abs(paddles[s].y) <= PaddleTravelLimit

\* -------------------------------------------------------------------- C2
\* C2: a run of out_of_bounds_detector on the single ball with x > halfWidth
\* sends exactly one ScoreEvent(Right) and sets the ball's position to (0, 0);
\* with x < -halfWidth it sends exactly one ScoreEvent(Left) and sets the
\* position to (0, 0); whatever y is.
C2_BoundaryScoresAndRecenters ==
    [][(Ran("out_of_bounds_detector") /\ Len(balls) = 1) =>
          /\ balls[1].x > WIDTH \div 2 =>
                /\ events'.cur = Append(events.cur, [side |-> "Right", read |-> FALSE])
                /\ events'.prev = events.prev
                /\ balls'[1].x = 0 /\ balls'[1].y = 0
          /\ balls[1].x < -(WIDTH \div 2) =>
                /\ events'.cur = Append(events.cur, [side |-> "Left", read |-> FALSE])
                /\ events'.prev = events.prev
                /\ balls'[1].x = 0 /\ balls'[1].y = 0
      ]_vars

\* A ball that left over the left goal line at y = -3 has been recentred and
\* its ScoreEvent(Left) is in the queue.
C2_Witness ==
    /\ "out_of_bounds_detector" \notin pending
    /\ Len(hist) = 1 /\ Len(hist[1]) = 1
    /\ hist[1][1].x < -(WIDTH \div 2) /\ hist[1][1].y = -300
    /\ pending = Systems \ {"out_of_bounds_detector"}
    /\ events.cur = <<[side |-> "Left", read |-> FALSE]>>
    /\ balls[1].x = 0 /\ balls[1].y = 0

\* -------------------------------------------------------------------- C3
\* C3: the ball is recentred exactly when a ScoreEvent is sent.  A run of
\* out_of_bounds_detector with -halfWidth <= x <= halfWidth sends nothing and
\* leaves the ball alone; a step that sends an event is a run of
\* out_of_bounds_detector and leaves the ball at (0, 0); a step that sends none
\* moves the ball only as gravity or velocity do; the score changes in no step
\* that finds no event in the queue.
C3_ResetExactlyOnScoreEvent ==
    [][LET sent == Len(events'.cur) > Len(events.cur)
           b == balls[1]
           c == balls'[1]
       IN  /\ (Ran("out_of_bounds_detector")
                 /\ b.x >= -(WIDTH \div 2) /\ b.x <= WIDTH \div 2)
                  => (~sent /\ balls' = balls)
           /\ sent => (Ran("out_of_bounds_detector") /\ c.x = 0 /\ c.y = 0)
           /\ ~sent =>
                 \/ c.x = b.x /\ c.y = b.y
                 \/ Ran("gravity") /\ c.x = b.x /\ c.y = b.y - dt * G * b.mass
                 \/ Ran("velocity") /\ c.x = b.x + dt * b.vx /\ c.y = b.y + dt * b.vy
           /\ (Unread(events, "Left") + Unread(events, "Right") = 0) => score' = score
      ]_vars

\* out_of_bounds_detector has run, before gravity and velocity, on a ball in
\* flight inside the arena: no event, and the ball is where it was.
C3_Witness ==
    /\ pending = Systems \ {"out_of_bounds_detector"}
    /\ balls[1].x > 0 /\ balls[1].x <= WIDTH \div 2
    /\ balls[1].y # 0
    /\ events.cur = <<>>

\* -------------------------------------------------------------------- C4
\* C4: each side's score never decreases, and a run of scoreboard_changer adds
\* to each side's score exactly the number of that side's ScoreEvents it finds
\* unread (one per event consumed), leaving the other side's score alone.
C4_ScorePerEvent ==
    [][/\ \A s \in Side : score'[s] >= score[s]
       /\ Ran("scoreboard_changer") =>
             \A s \in Side : score'[s] = score[s] + Unread(events, s)
      ]_vars

\* -------------------------------------------------------------------- C5
\* C5: every ScoreEvent sent in a frame has been consumed by the end of that
\* frame, and at the start of every frame the queue is empty.
C5_QueueDrainedEachTick ==
    /\ pending = {} => Unread(events, "Left") + Unread(events, "Right") = 0
    /\ pending = Systems => (events.cur = <<>> /\ events.prev = <<>>)

\* -------------------------------------------------------------------- C6
\* C6: in every frame the systems run in the one order gravity, velocity,
\* controls, out_of_bounds_detector, collision_detector, scoreboard_changer.
Order == <<"gravity", "velocity", "controls", "out_of_bounds_detector",
           "collision_detector", "scoreboard_changer">>

C6_FixedOrder ==
    [][\A i \in 1..Len(Order) :
          Ran(Order[i]) => \A j \in 1..(i - 1) : Order[j] \notin pending
      ]_vars

\* -------------------------------------------------------------------- C7
\* C7: one run of gravity changes the Position.y of every entity carrying Mass
\* by exactly -dt * G * mass (mass positive, zero or negative) and leaves its
\* Position.x, and the paddles, unchanged; with dt = 0 it changes nothing.
C7_GravityDisplacement ==
    [][Ran("gravity") =>
          /\ Len(balls') = Len(balls)
          /\ \A i \in 1..Len(balls) :
                /\ balls'[i].y = balls[i].y - dt * G * balls[i].mass
                /\ balls'[i].x = balls[i].x
          /\ dt = 0 => balls' = balls
          /\ paddles' = paddles
      ]_vars

\* gravity has run first in a frame with dt > 0 on a ball of negative mass,
\* which it has moved up.
C7_Witness ==
    /\ pending = Systems \ {"gravity"}
    /\ dt > 0
    /\ Len(balls) >= 1 /\ Len(hist) = 1
    /\ balls[1].mass < 0
    /\ balls[1].y = hist[1][1].y - dt * G * balls[1].mass
    /\ balls[1].y > hist[1][1].y

\* -------------------------------------------------------------------- C8
\* C8: after two runs of collision_detector in succession, nothing else
\* having run in between, the ball's Mass (value and sign) is what it was
\* before the first, whether or not the ball touches the top or bottom edge.
C8_DoubleFlipRestores ==
    (Len(hist) = 2 /\ pending = {}) => balls = hist[1]

\* The ball touched an edge: the first run flipped a non-zero mass and the
\* second has run.
C8_Witness ==
    /\ Len(hist) = 2 /\ pending = {}
    /\ hist[1][1].mass # 0
    /\ hist[2][1].mass = -hist[1][1].mass

C10_NotSinglePanics ==
    [][/\ ~panicked
       /\ \A s \in {"out_of_bounds_detector", "collision_detector"} :
             (Ran(s) /\ Len(balls) # 1) =>
                 (panicked' /\ events' = events /\ balls' = balls)
      ]_vars

\* The app has panicked with two Ball entities in the world.
C10_Witness ==
    /\ panicked
    /\ Len(balls) = 2
    /\ events = NoEvents

\* ====================================================================
\* Frames whose systems run in the order of the add_system calls
\* ====================================================================
\* The executor may pick any order; this is the one in which the systems were
\* added, taken in every frame.
Before(s) == {Order[j] : j \in 1..((CHOOSE i \in 1..Len(Order) : Order[i] = s) - 1)}

InOrder(s) == Before(s) \cap pending = {}

NextInOrder ==
    \/ BeginTick
    \/ InOrder("gravity") /\ gravity
    \/ InOrder("velocity") /\ velocity
    \/ InOrder("controls") /\ controls
    \/ InOrder("out_of_bounds_detector") /\ out_of_bounds_detector
    \/ InOrder("collision_detector") /\ collision_detector
    \/ InOrder("scoreboard_changer") /\ scoreboard_changer

SpecInOrder == Init /\ [][NextInOrder]_vars

\* The ball's lower edge is under the bottom bound / its upper edge over the
\* top bound.
Below(b) == b.y - BALL_RADIUS < -(HEIGHT \div 2)

Above(b) == b.y + BALL_RADIUS > HEIGHT \div 2

\* How far the ball's edge is past the bound it has crossed (0 if none).
Overshoot(b) ==
    IF Below(b) THEN -(HEIGHT \div 2) - (b.y - BALL_RADIUS)
    ELSE IF Above(b) THEN (b.y + BALL_RADIUS) - HEIGHT \div 2
    ELSE 0

\* ------------------------------------------------------------------- C11
\* C11: once the ball's edge has crossed the top or bottom bound, the next
\* displacement by gravity points back into the arena (the ball never moves
\* further out), and the overshoot past the bound never exceeds the vertical
\* displacement of one frame (of the longest frame, MaxDt).
C11_BackIntoArena ==
    [][Ran("gravity") =>
          /\ Below(balls[1]) => balls'[1].y >= balls[1].y
          /\ Above(balls[1]) => balls'[1].y <= balls[1].y
          /\ Overshoot(balls'[1]) <= MaxDt * G * Abs(balls[1].mass)
      ]_vars

C13_RecenterKeepsMotion ==
    [][(Ran("out_of_bounds_detector") /\ Len(balls) = 1) =>
          /\ balls'[1].mass = balls[1].mass
          /\ balls'[1].vx = balls[1].vx
          /\ balls'[1].vy = balls[1].vy
          /\ paddles' = paddles
      ]_vars

\* A ball pushed upwards (negative mass) has left the arena and has been
\* recentred, its push still upwards.
C13_Witness ==
    /\ pending = Systems \ {"out_of_bounds_detector"}
    /\ Len(hist) = 1 /\ Len(hist[1]) = 1
    /\ OutOfBounds(hist[1][1].x) # "None"
    /\ hist[1][1].mass = -SPAWN_MASS
    /\ Len(events.cur) = 1
    /\ balls[1] = [hist[1][1] EXCEPT !.x = 0, !.y = 0]

\* ------------------------------------------------------------------- C14
\* C14: gravity and velocity together move every ball by exactly
\* (dt * vx, dt * vy - dt * G * mass) in a frame, whichever of the two runs
\* first; neither changes Velocity or Mass, and neither moves a paddle.
C14_KinematicsTogether ==
    [][(Ran("gravity") \/ Ran("velocity")) =>
          /\ paddles' = paddles
          /\ Len(balls') = Len(balls)
          /\ \A i \in 1..Len(balls) :
                /\ balls'[i].mass = balls[i].mass
                /\ balls'[i].vx = balls[i].vx
                /\ balls'[i].vy = balls[i].vy
          /\ (/\ Len(hist) = 1
              /\ {"gravity", "velocity"} \cap pending' = {}
              /\ {"out_of_bounds_detector", "collision_detector"} \subseteq pending')
                => \A i \in 1..Len(balls) :
                      /\ balls'[i].x = hist[1][i].x + dt * hist[1][i].vx
                      /\ balls'[i].y = hist[1][i].y + dt * hist[1][i].vy
                                          - dt * G * hist[1][i].mass
      ]_vars

\* Both passes have run, in a frame with dt > 0, before the two detectors: a
\* ball with a non-zero mass has moved along both axes.
C14_Witness ==
    /\ {"gravity", "velocity"} \cap pending = {}
    /\ {"out_of_bounds_detector", "collision_detector"} \subseteq pending
    /\ dt > 0
    /\ Len(hist) = 1 /\ Len(balls) >= 1
    /\ balls[1].mass # 0 /\ balls[1].vy # 0
    /\ balls[1].x = hist[1][1].x + dt * balls[1].vx
    /\ balls[1].x # hist[1][1].x
    /\ balls[1].y = hist[1][1].y + dt * balls[1].vy - dt * G * balls[1].mass
    /\ balls[1].y # hist[1][1].y

\* ====================================================================
\* The systems in a frame whose Time::delta_seconds() is negative
\* ====================================================================
\* One frame over the spawned ball, the paddles anywhere up to the stop.  The
\* systems read the f32 of Time as it is; Bevy's Time measures a Duration, so
\* the app itself never hands them a negative one.
InitNegDt ==
    /\ balls = <<SpawnBall>>
    /\ paddles \in {[s \in Side |-> [SpawnPlayers[s] EXCEPT !.y = py[s]]] :
                        py \in [Side -> PaddleYs]}
    /\ dt \in (-MaxNegDt)..(-1)
    /\ pending = Systems
    /\ events = NoEvents
    /\ score = SetupScore
    /\ panicked = FALSE
    /\ hist = <<balls>>

SpecNegDt == InitNegDt /\ [][NextAny]_vars

C18_MassMagnitudeKept ==
    [][/\ Abs(balls'[1].mass) = SPAWN_MASS
       /\ balls'[1].mass # balls[1].mass =>
              (Ran("collision_detector") /\ balls'[1].mass = -balls[1].mass)
      ]_vars

\* The Mass has been flipped and gravity has since pulled the ball upward.
C18_Witness ==
    /\ balls[1].mass = -SPAWN_MASS
    /\ "collision_detector" \notin pending
    /\ "gravity" \notin pending
    /\ pending # {}

\* ====================================================================
\* The app running on: frames that take time keep coming
\* ====================================================================
\* A frame begins as in BeginTick, wherever the ball is: the ball is put back
\* at the centre within WIDTH / 2 / SPAWN_VX seconds of frames, so its y stays
\* within what gravity covers in that time.
BeginTickLive ==
    /\ ~panicked
    /\ pending = {}
    /\ dt' \in 0..MaxDt
    /\ events' = EventsUpdate(events)
    /\ pending' = Systems
    /\ UNCHANGED <<balls, paddles, score, panicked, hist>>

NextLive ==
    \/ BeginTickLive
    \/ gravity
    \/ velocity
    \/ controls
    \/ out_of_bounds_detector
    \/ collision_detector
    \/ scoreboard_changer

\* The schedule always goes on to the next system and the next frame, and
\* frames of at least one second keep occurring; frames of no time at all may
\* come in between, any number of them.
SpecLive ==
    /\ Init
    /\ [][NextLive]_vars
    /\ WF_vars(NextLive)
    /\ SF_vars(BeginTickLive /\ dt' >= 1)

\* This step is out_of_bounds_detector finding the ball beyond the right goal
\* line, sending ScoreEvent(Right) and putting the ball at the centre.
ScoredRight ==
    /\ Ran("out_of_bounds_detector")
    /\ balls[1].x > WIDTH \div 2
    /\ events'.cur = Append(events.cur, [side |-> "Right", read |-> FALSE])
    /\ balls'[1].x = 0
    /\ balls'[1].y = 0

====
